---- MODULE Spec2Model ----
(***************************************************************************)
(* Model of the Advanced Crypto Trading Agent: the RiskManager, the        *)
(* decision cycle of AdvancedCryptoTradingAgent.trade, signal fusion       *)
(* (StrategyContext.composite_signal) and the RecommendationEngine of the  *)
(* dashboard.                                                              *)
(*                                                                         *)
(* Python floats are modelled as exact rationals <<n, d>> in lowest terms  *)
(* with d > 0 (rounding is not modelled); datetimes are integer ticks and  *)
(* timedeltas are differences of ticks.                                    *)
(***************************************************************************)
EXTENDS Integers, Sequences, FiniteSets, TLC

\* ------------------------------------------------------------------------
\* Bounds of the model
\* ------------------------------------------------------------------------
MaxTime == 4
MaxCooldown == 2
MaxHist == 2
MaxSyms == 2
MaxReadings == 1
MaxInterval == 2
MaxPrices == 4
MaxPeriod == 2
MaxBars == 2

\* ------------------------------------------------------------------------
\* Exact arithmetic standing for Python's float arithmetic
\* ------------------------------------------------------------------------
Abs(x) == IF x < 0 THEN -x ELSE x

RECURSIVE GCD(_, _)
GCD(a, b) == IF b = 0 THEN a ELSE GCD(b, a % b)

Rat(n, d) ==
    LET s == IF d < 0 THEN -1 ELSE 1
        g == GCD(Abs(n), Abs(d))
    IN  <<(s * n) \div g, (s * d) \div g>>

Zero == Rat(0, 1)
One == Rat(1, 1)
RAdd(a, b) == Rat(a[1] * b[2] + b[1] * a[2], a[2] * b[2])
RSub(a, b) == Rat(a[1] * b[2] - b[1] * a[2], a[2] * b[2])
RMul(a, b) == Rat(a[1] * b[1], a[2] * b[2])
RDiv(a, b) == Rat(a[1] * b[2], a[2] * b[1])
RNeg(a) == <<-a[1], a[2]>>
RLt(a, b) == a[1] * b[2] < b[1] * a[2]
RLe(a, b) == a[1] * b[2] <= b[1] * a[2]
RAbs(a) == <<Abs(a[1]), a[2]>>
\* Python's min(a, b) and max(a, b): the first argument unless the second
\* is strictly smaller (larger).
RMin(a, b) == IF RLt(b, a) THEN b ELSE a
RMax(a, b) == IF RLt(a, b) THEN b ELSE a

\* None, for an optional datetime argument and for a float not yet set.
NoTime == -1
NoRat == <<>>

\* ------------------------------------------------------------------------
\* State
\* ------------------------------------------------------------------------
VARIABLES
    clock,        \* datetime.utcnow()
    config,       \* AgentConfig: [cooldown, dry_run]
    peak_equity,  \* RiskManager._peak_equity
    position,     \* RiskManager._position: PositionState
    call,         \* the most recent call on the RiskManager and its result
    recorded,     \* history: time of the most recent record_trade, if any
    cycle,        \* log of the agent's most recent operation, if a trade call
    rec,          \* log of the agent's most recent operation, if a
                  \* RecommendationEngine.build_recommendation call
    fusion,       \* inputs and result of build_strategy_context
    refreshLog,   \* log of the most recent RecommendationEngine.refresh call
    recommendations,  \* RecommendationDashboard._recommendations
    loop,         \* the refresh thread: its position and its local variable
    stopFlag,     \* RecommendationDashboard._stop
    update_interval,  \* RecommendationDashboard._interval, in clock ticks
    reads,        \* what the most recent read of the recommendations property
                  \* returned, and how many reads there were
    inflight,     \* per thread, the symbol whose computation it is inside
    exec,         \* inputs and report of an ExecutionEngine.send_order call
    tech          \* inputs and result of a technical-indicator call

riskVars == <<peak_equity, position>>
apiVars == <<call, recorded>>
agentVars == <<cycle, rec>>
dashVars == <<refreshLog, recommendations, loop, stopFlag>>
threadVars == <<update_interval, reads, inflight>>
pureVars == <<exec, tech>>
vars == <<clock, config, peak_equity, position, call, recorded, cycle, rec, fusion,
          refreshLog, recommendations, loop, stopFlag, update_interval, reads,
          inflight, exec, tech>>

\* ------------------------------------------------------------------------
\* config.py: RiskConfig (fractions written as rationals)
\* ------------------------------------------------------------------------
max_position_size == Rat(15, 100)
max_drawdown == Rat(3, 100)
take_profit == Rat(5, 100)
stop_loss == Rat(2, 100)

\* ------------------------------------------------------------------------
\* risk/risk_manager.py
\* ------------------------------------------------------------------------
\* PositionState(): size 0.0, entry_price 0.0, last_trade_time utcnow().
\* A position whose last trade lies a full cooldown back.
PositionStateLongAgo(now) ==
    [size |-> Zero, entry_price |-> Zero, last_trade_time |-> now - MaxCooldown]
PositionState(now) == [size |-> Zero, entry_price |-> Zero, last_trade_time |-> now]

\* `now = now or datetime.utcnow()`: a datetime is always truthy.
NowOr(now, utcnow) == IF now = NoTime THEN utcnow ELSE now

\* update_equity: the new peak.
NewPeakOverwrite(peak, equity) == equity
NewPeak(peak, equity) == IF RLt(peak, equity) THEN equity ELSE peak

\* update_equity: `equity / self._peak_equity` raises ZeroDivisionError when
\* the peak is 0.
UpdateEquityRaises(peak, equity) == NewPeak(peak, equity) = Zero

\* update_equity: whether the drawdown warning is logged.
DrawdownWarned(peak, equity) ==
    RLt(max_drawdown, RSub(One, RDiv(equity, NewPeak(peak, equity))))

can_trade_strict(pos, cooldown, now) == now - pos.last_trade_time > cooldown
can_trade(pos, cooldown, now) == now - pos.last_trade_time >= cooldown

position_size_signed(equity, signal_strength) ==
    LET size == RMul(RMul(RMin(signal_strength, One), max_position_size), equity)
    IN  RMax(RMin(size, RMul(equity, max_position_size)), Zero)
position_size(equity, signal_strength) ==
    LET size == RMul(RMul(RMin(RAbs(signal_strength), One), max_position_size), equity)
    IN  RMax(RMin(size, RMul(equity, max_position_size)), Zero)

record_trade(pos, size, price, now) ==
    [size |-> size, entry_price |-> price, last_trade_time |-> now]

stop_levels(entry_price) ==
    [take_profit |-> RMul(entry_price, RAdd(One, take_profit)),
     stop_loss |-> RMul(entry_price, RSub(One, stop_loss))]

\* ------------------------------------------------------------------------
\* config.py: ExecutionConfig
\* ------------------------------------------------------------------------
max_slippage == Rat(5, 10000)

\* ------------------------------------------------------------------------
\* execution/execution_engine.py
\* ------------------------------------------------------------------------
NoReport == [order |-> <<>>, status |-> "none", executed_quantity |-> NoRat,
             avg_price |-> NoRat]

\* send_order; u stands for random.uniform(0.9, 1.0) and v for
\* random.uniform(-max_slippage, max_slippage).
send_order_always_filled(dry_run, symbol, side, quantity, price, u, v) ==
    [order |-> [symbol |-> symbol, side |-> side, quantity |-> quantity,
                price |-> price],
     status |-> IF dry_run THEN "FILLED" ELSE "NEW",
     executed_quantity |-> IF dry_run THEN RMul(quantity, u) ELSE Zero,
     avg_price |-> IF dry_run THEN RAdd(price, RMul(price, v)) ELSE price]
send_order(dry_run, symbol, side, quantity, price, u, v) ==
    LET order == [symbol |-> symbol, side |-> side, quantity |-> quantity,
                  price |-> price]
    IN  IF dry_run
        THEN LET executed_qty == RMul(quantity, u)
                 slippage == RMul(price, v)
                 avg_price == RAdd(price, slippage)
             IN  [order |-> order,
                  status |-> IF executed_qty = quantity THEN "FILLED"
                             ELSE "PARTIALLY_FILLED",
                  executed_quantity |-> executed_qty,
                  avg_price |-> avg_price]
        ELSE [order |-> order, status |-> "NEW", executed_quantity |-> Zero,
              avg_price |-> price]

\* ------------------------------------------------------------------------
\* analysis/technical.py
\* ------------------------------------------------------------------------
\* float("nan"); every comparison with it is false.
NaN == "nan"
FloatGt(a, b) == a # NaN /\ b # NaN /\ RLt(b, a)
FloatLt(a, b) == a # NaN /\ b # NaN /\ RLt(a, b)
FloatSub(a, b) == IF a = NaN \/ b = NaN THEN NaN ELSE RSub(a, b)

\* The outcome of a call: the value returned, or the exception raised.
Returned(value) == [error |-> "none", value |-> value]
Raised(error) == [error |-> error, value |-> <<>>]

\* sum(q[first..last]), with 1-based bounds cut to the sequence as a slice is.
RECURSIVE SumSeq(_, _, _)
SumSeq(q, first, last) ==
    IF first > last \/ first > Len(q) THEN Zero
    ELSE RAdd(q[first], SumSeq(q, first + 1, last))

moving_average(values, period) ==
    IF period <= 0 THEN Raised("ValueError: Period must be positive")
    ELSE Returned([i \in 1..Len(values) |->
                     IF i < period THEN NaN
                     ELSE RDiv(SumSeq(values, i + 1 - period, i), Rat(period, 1))])

\* The smoothed average at position idx of a series whose seed, the mean of
\* the period entries from position first on, is at position seedAt:
\* avg = (avg * (period - 1) + series[idx]) / period.
RECURSIVE Smoothed(_, _, _, _, _)
Smoothed(series, period, first, seedAt, idx) ==
    IF idx = seedAt
    THEN RDiv(SumSeq(series, first, first + period - 1), Rat(period, 1))
    ELSE RDiv(RAdd(RMul(Smoothed(series, period, first, seedAt, idx - 1),
                        Rat(period - 1, 1)),
                   series[idx]),
              Rat(period, 1))

\* gains and losses of relative_strength_index.
Gains(values) ==
    [i \in 1..Len(values) |->
        IF i = 1 THEN Zero ELSE RMax(RSub(values[i], values[i - 1]), Zero)]
Losses(values) ==
    [i \in 1..Len(values) |->
        IF i = 1 THEN Zero ELSE RAbs(RMin(RSub(values[i], values[i - 1]), Zero))]

compute_rsi_swapped(avg_gain, avg_loss) ==
    IF avg_gain = Zero THEN Rat(100, 1)
    ELSE RSub(Rat(100, 1), RDiv(Rat(100, 1), RAdd(One, RDiv(avg_loss, avg_gain))))
compute_rsi(avg_gain, avg_loss) ==
    IF avg_loss = Zero THEN Rat(100, 1)
    ELSE RSub(Rat(100, 1), RDiv(Rat(100, 1), RAdd(One, RDiv(avg_gain, avg_loss))))

\* Python index idx is position idx + 1 here: the seed is at position
\* period + 1, from gains[1 : period + 1].
relative_strength_index(values, period) ==
    IF period <= 0 THEN Raised("ValueError: Period must be positive")
    ELSE IF Len(values) < period + 1
    THEN Raised("ValueError: Not enough data for RSI calculation")
    ELSE Returned([i \in 1..Len(values) |->
            IF i <= period THEN NaN
            ELSE compute_rsi(Smoothed(Gains(values), period, 2, period + 1, i),
                             Smoothed(Losses(values), period, 2, period + 1, i))])

Max3(a, b, c) == RMax(RMax(a, b), c)

true_ranges(highs, lows, closes) ==
    [i \in 1..Len(highs) |->
        IF i = 1 THEN RSub(highs[1], lows[1])
        ELSE Max3(RSub(highs[i], lows[i]),
                  RAbs(RSub(highs[i], closes[i - 1])),
                  RAbs(RSub(lows[i], closes[i - 1])))]

\* highs[0] of an empty list and atr_values[period - 1] of a list shorter
\* than period raise IndexError.
average_true_range(highs, lows, closes, period) ==
    IF ~(Len(highs) = Len(lows) /\ Len(lows) = Len(closes))
    THEN Raised("ValueError: Input arrays must have the same length")
    ELSE IF period <= 0 THEN Raised("ValueError: Period must be positive")
    ELSE IF Len(highs) = 0 THEN Raised("IndexError: list index out of range")
    ELSE IF period > Len(highs)
    THEN Raised("IndexError: list assignment index out of range")
    ELSE Returned([i \in 1..Len(highs) |->
            IF i < period THEN NaN
            ELSE Smoothed(true_ranges(highs, lows, closes), period, 1, period, i)])

TechnicalConfig(fast_ma, slow_ma, rsi_period) ==
    [fast_ma |-> fast_ma, slow_ma |-> slow_ma, rsi_period |-> rsi_period]

\* The moving-average term of the signal.
MATermAlwaysUp(fast, slow) == Rat(4, 10)
MATerm(fast, slow) == IF FloatGt(fast, slow) THEN Rat(4, 10) ELSE Rat(-4, 10)

\* The RSI term of the signal.
RSITerm(rsi_value) ==
    IF rsi_value = NaN THEN Zero
    ELSE IF FloatGt(rsi_value, Rat(70, 1)) THEN Rat(-3, 10)
    ELSE IF FloatLt(rsi_value, Rat(30, 1)) THEN Rat(3, 10)
    ELSE Zero

\* fast_ma[latest_idx] of an empty list would raise IndexError, but the RSI
\* of an empty list raises first.
generate_technical_signal(prices, cfg) ==
    LET fast_ma == moving_average(prices, cfg.fast_ma)
        slow_ma == moving_average(prices, cfg.slow_ma)
        rsi == relative_strength_index(prices, cfg.rsi_period)
        latest == Len(prices)
    IN  IF fast_ma.error # "none" THEN Raised(fast_ma.error)
        ELSE IF slow_ma.error # "none" THEN Raised(slow_ma.error)
        ELSE IF rsi.error # "none" THEN Raised(rsi.error)
        ELSE LET fast == fast_ma.value[latest]
                 slow == slow_ma.value[latest]
                 rsi_value == rsi.value[latest]
             IN  Returned([value |-> FloatSub(fast, slow),
                           signal |-> RAdd(RAdd(Zero, MATerm(fast, slow)),
                                           RSITerm(rsi_value))])

\* ------------------------------------------------------------------------
\* strategy/hft_strategy.py
\* ------------------------------------------------------------------------
StrategyContext(technical_signal, fundamental, sentiment) ==
    [technical |-> [signal |-> technical_signal], fundamental |-> fundamental,
     sentiment |-> sentiment]

WeightedSum(ctx) ==
    RAdd(RAdd(RMul(ctx.technical.signal, Rat(5, 10)), RMul(ctx.fundamental, Rat(3, 10))),
         RMul(ctx.sentiment, Rat(2, 10)))

composite_signal_upper_only(ctx) == RMin(WeightedSum(ctx), One)
composite_signal(ctx) == RMax(RMin(WeightedSum(ctx), One), RNeg(One))

\* ------------------------------------------------------------------------
\* trader.py
\* ------------------------------------------------------------------------
\* The result of BinanceClient.get_klines followed by build_context: the
\* request fails ("fail"), the series is too short for the RSI ("short"),
\* or the series is usable and its last close is `price`.
Fetched(status, price) == [status |-> status, price |-> price]

NoCycle == [symbol |-> "none", outcome |-> "none", fetch |-> "none",
            signal |-> NoRat, size |-> NoRat, side |-> "none", orders |-> <<>>,
            report |-> NoReport, recorded |-> <<>>, stops |-> <<>>]

\* trader.py:75, the cooldown gate of the cycle.
CooldownIgnored(pos, cooldown, now) == FALSE
CooldownActive(pos, cooldown, now) == ~can_trade(pos, cooldown, now)

\* trader.py:81, the zero-size gate of the cycle.
SizeCheckMissing(size) == FALSE
SizeIsZero(size) == size = Zero

\* trader.py:85, the side of the order.
OrderSide(signal) == IF RLt(Zero, signal) THEN "BUY" ELSE "SELL"

\* trade: the position after the cycle and the cycle's log.  An exception
\* leaves the cycle at the statement that raised it.
trade(pos, cfg, now, symbol, fetch, ctx, u, v) ==
    LET log0 == [NoCycle EXCEPT !.symbol = symbol, !.fetch = fetch.status]
    IN
    IF fetch.status = "fail"
    THEN [position |-> pos, log |-> [log0 EXCEPT !.outcome = "fetch_failed"]]
    ELSE IF fetch.status = "short"
    THEN [position |-> pos, log |-> [log0 EXCEPT !.outcome = "context_error"]]
    ELSE
    LET signal == composite_signal(ctx)
        log1 == [log0 EXCEPT !.signal = signal]
    IN
    IF CooldownActive(pos, cfg.cooldown, now)
    THEN [position |-> pos, log |-> [log1 EXCEPT !.outcome = "cooldown"]]
    ELSE
    LET equity == One
        size == position_size(equity, signal)
        log2 == [log1 EXCEPT !.size = size]
    IN
    IF SizeIsZero(size)
    THEN [position |-> pos, log |-> [log2 EXCEPT !.outcome = "zero_size"]]
    ELSE
    LET side == OrderSide(signal)
        price == fetch.price
        log3 == [log2 EXCEPT !.side = side]
    IN
    IF price = Zero
    THEN \* position_size / price raises ZeroDivisionError
         [position |-> pos, log |-> [log3 EXCEPT !.outcome = "zero_price"]]
    ELSE
    LET report == send_order(cfg.dry_run, symbol, side, RDiv(size, price), price, u, v)
        rsize == RMul(report.executed_quantity, price)
        stops == stop_levels(report.avg_price)
    IN  [position |-> record_trade(pos, rsize, report.avg_price, now),
         log |-> [log3 EXCEPT !.outcome = "traded", !.orders = <<report.order>>,
                              !.report = report,
                              !.recorded = <<rsize, report.avg_price>>,
                              !.stops = <<stops>>]]

\* The RiskManager that gates `symbol`: the agent holds one RiskManager,
\* created in __init__, and trade uses it for every symbol.
RiskPositionOf(symbol) == position

\* ------------------------------------------------------------------------
\* web/dashboard.py: RecommendationEngine.build_recommendation
\* ------------------------------------------------------------------------
NoRec == [raised |-> FALSE, symbol |-> "none", side |-> "none", signal |-> NoRat,
          probability |-> NoRat, entry_price |-> NoRat, exit_price |-> NoRat]

\* dashboard.py:72
RecommendationSide(signal) == IF RLe(Zero, signal) THEN "LONG" ELSE "SHORT"

\* dashboard.py:74
Probability(signal) == RMax(RMin(RAbs(signal), One), Zero)

\* The ATR entry of `statistics` and `updated_at` are not modelled.
build_recommendation(symbol, fetch, ctx) ==
    IF fetch.status # "ok"
    THEN [NoRec EXCEPT !.raised = TRUE, !.symbol = symbol]
    ELSE
    LET signal == composite_signal(ctx)
        price == fetch.price
        side == RecommendationSide(signal)
        probability == Probability(signal)
        expected_return == RMul(probability, Rat(5, 100))
    IN  [raised |-> FALSE, symbol |-> symbol, side |-> side, signal |-> signal,
         probability |-> probability,
         entry_price |-> price,
         exit_price |-> IF side = "LONG"
                        THEN RMul(price, RAdd(One, expected_return))
                        ELSE RMul(price, RSub(One, expected_return))]

\* ------------------------------------------------------------------------
\* analysis/fundamental.py
\* ------------------------------------------------------------------------
RECURSIVE SeqMin(_)
SeqMin(values) ==
    IF Len(values) = 1 THEN values[1] ELSE RMin(values[1], SeqMin(Tail(values)))

RECURSIVE SeqMax(_)
SeqMax(values) ==
    IF Len(values) = 1 THEN values[1] ELSE RMax(values[1], SeqMax(Tail(values)))

normalize_metric(values) ==
    IF values = <<>> THEN Zero
    ELSE LET minimum == SeqMin(values)
             maximum == SeqMax(values)
             latest == values[Len(values)]
         IN  IF maximum = minimum THEN Zero
             ELSE RSub(RMul(Rat(2, 1), RDiv(RSub(latest, minimum), RSub(maximum, minimum))),
                       One)

\* sum(metrics.values()) over the metric names in `names`.
RECURSIVE SumOver(_, _)
SumOver(f, names) ==
    IF names = {} THEN Zero
    ELSE LET n == CHOOSE x \in names : TRUE
         IN  RAdd(f[n], SumOver(f, names \ {n}))

\* weights.get(name, 0.0)
WeightOf(weights, name) == IF name \in DOMAIN weights THEN weights[name] ELSE Zero

fundamental_score(history, weights) ==
    LET metrics == [name \in DOMAIN history |->
                       RMul(normalize_metric(history[name]), WeightOf(weights, name))]
    IN  SumOver(metrics, DOMAIN metrics)

\* ------------------------------------------------------------------------
\* analysis/sentiment.py
\* ------------------------------------------------------------------------
exponential_smoothing(previous, current, alpha) ==
    RAdd(RMul(alpha, current), RMul(RSub(One, alpha), previous))

\* The loop of aggregate_sentiment: sentiment_by_source after the readings.
RECURSIVE SmoothAll(_, _, _)
SmoothAll(readings, by_source, alpha) ==
    IF readings = <<>> THEN by_source
    ELSE LET reading == Head(readings)
             prev == IF reading.source \in DOMAIN by_source
                     THEN by_source[reading.source] ELSE Zero
             next == exponential_smoothing(prev, reading.score, alpha)
         IN  SmoothAll(Tail(readings),
                       [x \in DOMAIN by_source \cup {reading.source} |->
                           IF x = reading.source THEN next ELSE by_source[x]],
                       alpha)

aggregate_sentiment(readings, alpha) ==
    LET sentiment_by_source == SmoothAll(readings, [x \in {} |-> Zero], alpha)
    IN  IF DOMAIN sentiment_by_source = {} THEN Zero
        ELSE RDiv(SumOver(sentiment_by_source, DOMAIN sentiment_by_source),
                  Rat(Cardinality(DOMAIN sentiment_by_source), 1))

\* ------------------------------------------------------------------------
\* config.py: FundamentalConfig, SentimentConfig, DataConfig
\* ------------------------------------------------------------------------
metrics_weights ==
    [network_growth |-> Rat(4, 10), exchange_inflows |-> Rat(-3, 10),
     developer_activity |-> Rat(3, 10)]
smoothing == Rat(2, 10)
trading_pairs == <<"BTCUSDT", "ETHUSDT">>

\* ------------------------------------------------------------------------
\* strategy/hft_strategy.py: build_strategy_context
\* ------------------------------------------------------------------------
\* `technical_signal` stands for generate_technical_signal(prices, config).signal.
build_strategy_context(technical_signal, fundamentals, weights, sentiment_readings, alpha) ==
    StrategyContext(technical_signal, fundamental_score(fundamentals, weights),
                    aggregate_sentiment(sentiment_readings, alpha))

NoFusion == [technical |-> NoRat, fundamentals |-> <<>>, weights |-> <<>>,
             readings |-> <<>>, ctx |-> <<>>, signal |-> NoRat]

\* ------------------------------------------------------------------------
\* web/dashboard.py: RecommendationEngine.refresh
\* ------------------------------------------------------------------------
\* sorted(..., key=probability, reverse=True): a stable sort, so entries of
\* equal probability keep their order.
RECURSIVE InsertByProbability(_, _)
InsertByProbability(item, sorted) ==
    IF sorted = <<>> THEN <<item>>
    ELSE IF RLt(Head(sorted).probability, item.probability)
         THEN <<item>> \o sorted
         ELSE <<Head(sorted)>> \o InsertByProbability(item, Tail(sorted))

RECURSIVE SortedFrom(_, _)
SortedFrom(items, acc) ==
    IF items = <<>> THEN acc
    ELSE SortedFrom(Tail(items), InsertByProbability(Head(items), acc))

Unsorted(items) == items
SortedByProbabilityDescending(items) == SortedFrom(items, <<>>)

\* The list comprehension of refresh: the recommendations built before the
\* first build_recommendation that raises, and whether one raised.
RECURSIVE BuildAll(_, _, _)
BuildAll(symbols, data, built) ==
    IF Len(built) = Len(symbols) THEN [raised |-> FALSE, built |-> built]
    ELSE LET i == Len(built) + 1
             r == build_recommendation(symbols[i], data[i].fetch, data[i].ctx)
         IN  IF r.raised THEN [raised |-> TRUE, built |-> built]
             ELSE BuildAll(symbols, data, Append(built, r))

NoRefresh == [called |-> FALSE, symbols |-> <<>>, data |-> <<>>, returned |-> FALSE,
              built |-> <<>>, result |-> <<>>]

\* refresh(symbols), with data[i] what the providers give for symbols[i].
refresh(symbols, data) ==
    LET b == BuildAll(symbols, data, <<>>)
    IN  [called |-> TRUE, symbols |-> symbols, data |-> data,
         returned |-> ~b.raised, built |-> b.built,
         result |-> IF b.raised THEN <<>> ELSE SortedByProbabilityDescending(b.built)]

\* ------------------------------------------------------------------------
\* Inputs
\* ------------------------------------------------------------------------
Times == 0..MaxTime
Equities == {Rat(-1, 2), Zero, Rat(1, 2), One, Rat(3, 2), Rat(2, 1)}
Strengths == {Rat(-2, 1), RNeg(One), Rat(-1, 2), Zero, Rat(1, 2), One, Rat(2, 1)}
Sizes == {Zero, Rat(3, 20)}
Prices == {Rat(100, 1), Rat(101, 1)}
Symbols == {"BTCUSDT", "ETHUSDT"}
CandlePrices == {Zero, Rat(100, 1)}
Fetches == {Fetched("fail", NoRat), Fetched("short", NoRat)}
               \cup {Fetched("ok", p) : p \in CandlePrices}
\* Draws <<u, v>> of send_order: a partial fill above the price and a full
\* fill below it.
Draws == {<<Rat(9, 10), max_slippage>>, <<One, RNeg(max_slippage)>>}
\* Contexts whose composite signals are 0, 1 (cut from 1.3) and -0.55.
TradeContexts ==
    {StrategyContext(Rat(4, 10), Rat(-4, 10), Rat(-4, 10)),
     StrategyContext(Rat(4, 10), Rat(3, 1), One),
     StrategyContext(Rat(-7, 10), Rat(-4, 10), Rat(-4, 10))}

\* Sequences over S of length at most n.
RECURSIVE SeqsUpTo(_, _)
SeqsUpTo(S, n) ==
    IF n = 0 THEN {<<>>}
    ELSE LET shorter == SeqsUpTo(S, n - 1)
         IN  shorter \cup {Append(q, x) : q \in {t \in shorter : Len(t) = n - 1}, x \in S}

\* Inputs of signal fusion.
MetricValues == {Zero, One}
MetricSeries == SeqsUpTo(MetricValues, MaxHist)
MetricNames == {"network_growth", "exchange_inflows"}
\* The configured weights, and weights that sum beyond 1.
WeightChoices == {metrics_weights, [network_growth |-> Rat(4, 1)]}
TechnicalSignals == {Rat(-7, 10), Rat(-1, 10), Rat(4, 10)}
Readings == {[source |-> src, score |-> sc] :
                src \in {"twitter", "news"}, sc \in {RNeg(One), One}}
ReadingSeqs == SeqsUpTo(Readings, MaxReadings)

\* Inputs of refresh: per symbol, what the providers give.
SymbolData ==
    {[fetch |-> f, ctx |-> <<>>] : f \in {x \in Fetches : x.status # "ok"}}
        \cup {[fetch |-> f, ctx |-> c] :
                 f \in {x \in Fetches : x.status = "ok"}, c \in TradeContexts}

\* Inputs of the refresh thread: per symbol, what the providers give.
\* Contexts whose composite signals are 1 and -0.55.
ThreadContexts ==
    {StrategyContext(Rat(4, 10), Rat(3, 1), One),
     StrategyContext(Rat(-7, 10), Rat(-4, 10), Rat(-4, 10))}
ThreadData ==
    {[fetch |-> Fetched("fail", NoRat), ctx |-> <<>>]}
        \cup {[fetch |-> Fetched("ok", Rat(100, 1)), ctx |-> c] : c \in ThreadContexts}

NoCall == [op |-> "none", now |-> NoTime, a |-> NoRat, b |-> NoRat, result |-> NoRat,
           raised |-> FALSE]

\* No read of the recommendations property yet.
NoReads == [any |-> FALSE, value |-> <<>>]

\* The threads that run the pipeline: the refresh thread and a thread of the
\* program that owns the agent and the engine.
Threads == {"refresh", "caller"}
NoFlight == [t \in Threads |-> "none"]

NoExec == [dry_run |-> TRUE, side |-> "none", quantity |-> NoRat, price |-> NoRat,
           u |-> NoRat, v |-> NoRat, reports |-> <<>>]

NoTech == [op |-> "none", done |-> FALSE]

\* The state after construction, but for the inputs of the pure functions.
InitCommon ==
    /\ clock = 0
    /\ config \in [cooldown : 1..MaxCooldown, dry_run : BOOLEAN]
    /\ peak_equity = One
    /\ position = PositionState(clock)
    /\ call = NoCall
    /\ recorded = [any |-> FALSE, time |-> clock]
    /\ cycle = NoCycle
    /\ rec = NoRec
    /\ recommendations = <<>>
    /\ loop = [pc |-> "idle", local |-> <<>>, deadline |-> NoTime]
    /\ stopFlag = FALSE
    /\ reads = NoReads
    /\ inflight = NoFlight

\* The inputs of the pure functions, when none is under study.
NoPureCall ==
    /\ fusion = NoFusion
    /\ exec = NoExec
    /\ tech = NoTech

Init ==
    /\ InitCommon
    /\ NoPureCall
    /\ refreshLog = NoRefresh
    /\ update_interval = 1

\* Time passes.
Tick ==
    /\ clock < MaxTime
    /\ clock' = clock + 1
    /\ UNCHANGED <<config, threadVars, pureVars, riskVars, apiVars, agentVars, fusion, dashVars>>

\* ------------------------------------------------------------------------
\* Calls on the RiskManager
\* ------------------------------------------------------------------------
CallUpdateEquity ==
    \E equity \in Equities :
        /\ peak_equity' = NewPeak(peak_equity, equity)
        /\ call' = [NoCall EXCEPT !.op = "update_equity", !.a = equity,
                       !.raised = UpdateEquityRaises(peak_equity, equity),
                       !.result = IF UpdateEquityRaises(peak_equity, equity)
                                  THEN NoRat
                                  ELSE DrawdownWarned(peak_equity, equity)]
        /\ UNCHANGED <<clock, config, threadVars, pureVars, position, recorded, agentVars, fusion, dashVars>>

CallCanTrade ==
    \E now \in Times \cup {NoTime} :
        /\ call' = [NoCall EXCEPT !.op = "can_trade", !.now = NowOr(now, clock),
                       !.result = can_trade(position, config.cooldown, NowOr(now, clock))]
        /\ UNCHANGED <<clock, config, threadVars, pureVars, riskVars, recorded, agentVars, fusion, dashVars>>

CallPositionSize ==
    \E equity \in Equities, strength \in Strengths :
        /\ call' = [NoCall EXCEPT !.op = "position_size", !.a = equity, !.b = strength,
                                  !.result = position_size(equity, strength)]
        /\ UNCHANGED <<clock, config, threadVars, pureVars, riskVars, recorded, agentVars, fusion, dashVars>>

CallRecordTrade ==
    \E size \in Sizes, price \in Prices, now \in Times \cup {NoTime} :
        /\ position' = record_trade(position, size, price, NowOr(now, clock))
        /\ call' = [NoCall EXCEPT !.op = "record_trade", !.now = NowOr(now, clock),
                                  !.a = size, !.b = price]
        /\ recorded' = [any |-> TRUE, time |-> NowOr(now, clock)]
        /\ UNCHANGED <<clock, config, threadVars, pureVars, peak_equity, agentVars, fusion, dashVars>>

CallStopLevels ==
    \E price \in Prices :
        /\ call' = [NoCall EXCEPT !.op = "stop_levels", !.a = price,
                                  !.result = stop_levels(price)]
        /\ UNCHANGED <<clock, config, threadVars, pureVars, riskVars, recorded, agentVars, fusion, dashVars>>

NextRisk ==
    \/ Tick
    \/ CallUpdateEquity
    \/ CallCanTrade
    \/ CallPositionSize
    \/ CallRecordTrade
    \/ CallStopLevels

\* ------------------------------------------------------------------------
\* The agent: decision cycles and recommendations
\* ------------------------------------------------------------------------
\* The draws of send_order are made only in a cycle that reaches it.
ReachesSendOrder(symbol, fetch, ctx) ==
    trade(position, config, clock, symbol, fetch, ctx, One, Zero).log.outcome = "traded"

Trade(symbol) ==
    \E fetch \in Fetches, ctx \in TradeContexts :
    \E d \in IF ReachesSendOrder(symbol, fetch, ctx) THEN Draws ELSE {<<One, Zero>>} :
        LET r == trade(position, config, clock, symbol, fetch, ctx, d[1], d[2])
        IN  /\ position' = r.position
            /\ cycle' = r.log
            /\ rec' = NoRec
            /\ recorded' = IF r.log.outcome = "traded"
                           THEN [any |-> TRUE, time |-> clock]
                           ELSE recorded
            /\ UNCHANGED <<clock, config, threadVars, pureVars, peak_equity, call,
                           fusion, dashVars>>

Recommend(symbol) ==
    \E fetch \in Fetches, ctx \in TradeContexts :
        /\ rec' = build_recommendation(symbol, fetch, ctx)
        /\ cycle' = NoCycle
        /\ UNCHANGED <<clock, config, threadVars, pureVars, riskVars, apiVars, fusion, dashVars>>

NextAgent ==
    \/ Tick
    \/ \E symbol \in Symbols : Trade(symbol)
    \/ \E symbol \in Symbols : Recommend(symbol)

SpecAgent == Init /\ [][NextAgent]_vars

\* The RiskManager on its own; dry_run belongs to the ExecutionEngine.
InitRisk == Init /\ config.dry_run

SpecRisk == InitRisk /\ [][NextRisk]_vars

\* ------------------------------------------------------------------------
\* Signal fusion on its own
\* ------------------------------------------------------------------------
\* One configuration, where the configuration does not matter.
DefaultConfig == [cooldown |-> 1, dry_run |-> TRUE]

InitOne == Init /\ config = DefaultConfig

\* The inputs of one build_strategy_context call.
InitFusion ==
    /\ InitCommon
    /\ config = DefaultConfig
    /\ refreshLog = NoRefresh
    /\ update_interval = 1
    /\ exec = NoExec
    /\ tech = NoTech
    /\ \E t \in TechnicalSignals, h \in [MetricNames -> MetricSeries],
          w \in WeightChoices, r \in ReadingSeqs :
          fusion = [NoFusion EXCEPT !.technical = t, !.fundamentals = h,
                                    !.weights = w, !.readings = r]

\* build_strategy_context and the composite_signal of its result.
Fuse ==
    /\ fusion # NoFusion
    /\ fusion.signal = NoRat
    /\ LET ctx == build_strategy_context(fusion.technical, fusion.fundamentals,
                                         fusion.weights, fusion.readings, smoothing)
       IN  fusion' = [fusion EXCEPT !.ctx = ctx, !.signal = composite_signal(ctx)]
    /\ UNCHANGED <<clock, config, threadVars, pureVars, riskVars, apiVars, agentVars, dashVars>>

NextFusion == Fuse

SpecFusion == InitFusion /\ [][NextFusion]_vars

\* ------------------------------------------------------------------------
\* The RecommendationEngine on its own
\* ------------------------------------------------------------------------
\* The inputs of one refresh call.
InitEngine ==
    /\ InitCommon
    /\ config = DefaultConfig
    /\ NoPureCall
    /\ update_interval = 1
    /\ \E n \in 0..MaxSyms :
       \E symbols \in [1..n -> Symbols], data \in [1..n -> SymbolData] :
          refreshLog = [NoRefresh EXCEPT !.symbols = symbols, !.data = data]

EngineRefresh ==
    /\ ~refreshLog.called
    /\ refreshLog' = refresh(refreshLog.symbols, refreshLog.data)
    /\ UNCHANGED <<clock, config, threadVars, pureVars, riskVars, apiVars, agentVars, fusion,
                   recommendations, loop, stopFlag>>

NextEngine == EngineRefresh

SpecEngine == InitEngine /\ [][NextEngine]_vars

\* ------------------------------------------------------------------------
\* The ExecutionEngine on its own
\* ------------------------------------------------------------------------
Quantities == {Zero, Rat(1, 1000), Rat(2, 1)}
OrderPrices == {Zero, Rat(100, 1)}
\* Draws of random.uniform(0.9, 1.0), its ends included.
FillDraws == {Rat(9, 10), Rat(19, 20), One}
\* Draws of random.uniform(-max_slippage, max_slippage), its ends included.
SlippageDraws == {RNeg(max_slippage), Zero, max_slippage}

\* The inputs of one send_order call.
InitExec ==
    /\ InitCommon
    /\ config = DefaultConfig
    /\ refreshLog = NoRefresh
    /\ update_interval = 1
    /\ fusion = NoFusion
    /\ tech = NoTech
    /\ \E dry_run \in BOOLEAN, side \in {"BUY", "SELL"}, quantity \in Quantities,
          price \in OrderPrices, u \in FillDraws, v \in SlippageDraws :
          exec = [dry_run |-> dry_run, side |-> side, quantity |-> quantity,
                  price |-> price, u |-> u, v |-> v, reports |-> <<>>]

SendOrder ==
    /\ exec.reports = <<>>
    /\ exec' = [exec EXCEPT !.reports =
                   <<send_order(exec.dry_run, "BTCUSDT", exec.side, exec.quantity,
                                exec.price, exec.u, exec.v)>>]
    /\ UNCHANGED <<clock, config, riskVars, apiVars, agentVars, fusion, dashVars,
                   threadVars, tech>>

NextExec == SendOrder

SpecExec == InitExec /\ [][NextExec]_vars

\* ------------------------------------------------------------------------
\* The technical indicators on their own
\* ------------------------------------------------------------------------
PriceValues == {One, Rat(2, 1), Rat(3, 1)}
PriceSeries == SeqsUpTo(PriceValues, MaxPrices)
BarValues == {One, Rat(2, 1)}
BarSeries == SeqsUpTo(BarValues, MaxBars)
TechnicalConfigs ==
    {TechnicalConfig(f, sl, r) :
        f \in 1..MaxPeriod, sl \in 1..(MaxPeriod + 1), r \in 1..MaxPeriod}

\* The inputs of one call of relative_strength_index, average_true_range or
\* generate_technical_signal.
InitTech ==
    /\ InitCommon
    /\ config = DefaultConfig
    /\ refreshLog = NoRefresh
    /\ update_interval = 1
    /\ fusion = NoFusion
    /\ exec = NoExec
    /\ \/ \E values \in PriceSeries, period \in 0..MaxPeriod :
             tech = [op |-> "relative_strength_index", done |-> FALSE,
                     values |-> values, period |-> period]
       \/ \E highs \in BarSeries, lows \in BarSeries, closes \in BarSeries,
             period \in 0..(MaxBars + 1) :
             tech = [op |-> "average_true_range", done |-> FALSE, highs |-> highs,
                     lows |-> lows, closes |-> closes, period |-> period]
       \/ \E prices \in PriceSeries, cfg \in TechnicalConfigs :
             tech = [op |-> "generate_technical_signal", done |-> FALSE,
                     prices |-> prices, cfg |-> cfg]

TechVarsOnly ==
    UNCHANGED <<clock, config, riskVars, apiVars, agentVars, fusion, dashVars,
                threadVars, exec>>

CallRSI ==
    /\ tech.op = "relative_strength_index"
    /\ ~tech.done
    /\ tech' = [op |-> tech.op, done |-> TRUE, values |-> tech.values,
                period |-> tech.period,
                result |-> relative_strength_index(tech.values, tech.period)]
    /\ TechVarsOnly

CallATR ==
    /\ tech.op = "average_true_range"
    /\ ~tech.done
    /\ tech' = [op |-> tech.op, done |-> TRUE, highs |-> tech.highs,
                lows |-> tech.lows, closes |-> tech.closes, period |-> tech.period,
                result |-> average_true_range(tech.highs, tech.lows, tech.closes,
                                              tech.period)]
    /\ TechVarsOnly

CallTechnicalSignal ==
    /\ tech.op = "generate_technical_signal"
    /\ ~tech.done
    /\ tech' = [op |-> tech.op, done |-> TRUE, prices |-> tech.prices,
                cfg |-> tech.cfg,
                result |-> generate_technical_signal(tech.prices, tech.cfg)]
    /\ TechVarsOnly

NextTech ==
    \/ CallRSI
    \/ CallATR
    \/ CallTechnicalSignal

SpecTech == InitTech /\ [][NextTech]_vars

\* ------------------------------------------------------------------------
\* The RecommendationDashboard: the refresh thread
\* ------------------------------------------------------------------------
\* start(): the thread is started.
Start ==
    /\ loop.pc = "idle"
    /\ loop' = [loop EXCEPT !.pc = "check"]
    /\ UNCHANGED <<clock, config, threadVars, pureVars, riskVars, apiVars, agentVars, fusion,
                   refreshLog, recommendations, stopFlag>>

\* stop(): the event is set.
Stop ==
    /\ ~stopFlag
    /\ stopFlag' = TRUE
    /\ UNCHANGED <<clock, config, threadVars, pureVars, riskVars, apiVars, agentVars, fusion,
                   refreshLog, recommendations, loop>>

\* `while not self._stop.is_set()`
LoopCheck ==
    /\ loop.pc = "check"
    /\ loop' = [loop EXCEPT !.pc = IF stopFlag THEN "done" ELSE "refresh"]
    /\ UNCHANGED <<clock, config, threadVars, pureVars, riskVars, apiVars, agentVars, fusion,
                   refreshLog, recommendations, stopFlag>>

\* `recommendations = self._engine.refresh(self._symbols)`: an exception
\* ends the thread.
LoopRefresh ==
    /\ loop.pc = "refresh"
    /\ \E data \in [1..Len(trading_pairs) -> ThreadData] :
          LET r == refresh(trading_pairs, data)
          IN  /\ refreshLog' = r
              /\ loop' = IF r.returned
                         THEN [loop EXCEPT !.pc = "publish", !.local = r.result]
                         ELSE [loop EXCEPT !.pc = "dead", !.local = <<>>]
    /\ UNCHANGED <<clock, config, threadVars, pureVars, riskVars, apiVars, agentVars, fusion,
                   recommendations, stopFlag>>

\* `with self._lock: self._recommendations = recommendations`
LoopPublish ==
    /\ loop.pc = "publish"
    /\ recommendations' = loop.local
    /\ loop' = [loop EXCEPT !.pc = "wait", !.deadline = clock + update_interval]
    /\ UNCHANGED <<clock, config, threadVars, pureVars, riskVars, apiVars, agentVars, fusion,
                   refreshLog, stopFlag>>

\* threading.Event.wait(timeout): returns once the event is set or the
\* timeout has passed.
WaitIgnoresEvent(flag, now, deadline) == now >= deadline
WaitReturns(flag, now, deadline) == flag \/ now >= deadline

\* `self._stop.wait(self._interval)`
LoopWait ==
    /\ loop.pc = "wait"
    /\ WaitReturns(stopFlag, clock, loop.deadline)
    /\ loop' = [loop EXCEPT !.pc = "check", !.deadline = NoTime]
    /\ UNCHANGED <<clock, config, threadVars, pureVars, riskVars, apiVars, agentVars, fusion,
                   refreshLog, recommendations, stopFlag>>

NextDash ==
    \/ Tick
    \/ Start
    \/ Stop
    \/ LoopCheck
    \/ LoopRefresh
    \/ LoopPublish
    \/ LoopWait

\* The dashboard after construction, with the interval it was given.
InitDash ==
    /\ InitCommon
    /\ NoPureCall
    /\ config = DefaultConfig
    /\ refreshLog = NoRefresh
    /\ update_interval \in 1..MaxInterval

SpecDash == InitDash /\ [][NextDash]_vars

\* The refresh thread is scheduled: a step of the loop that can be taken is
\* taken. Nothing makes time pass or stop() be called.
DashFairness ==
    /\ WF_vars(LoopCheck)
    /\ WF_vars(LoopRefresh)
    /\ WF_vars(LoopPublish)
    /\ WF_vars(LoopWait)

SpecDashLive == SpecDash /\ DashFairness

\* ------------------------------------------------------------------------
\* The threads of a program that runs the dashboard: the refresh thread with
\* refresh taken one symbol at a time, the HTTP handlers that read the
\* recommendations, and a thread of the program that uses the engine it
\* handed to the dashboard.
\* ------------------------------------------------------------------------
\* The list comprehension of refresh starts from an empty list.
FreshList(pc, local) == IF pc = "refresh" THEN <<>> ELSE local

\* refresh enters build_recommendation for the next symbol.
BuildBegin ==
    /\ loop.pc \in {"refresh", "next"}
    /\ LET built == FreshList(loop.pc, loop.local)
       IN  /\ loop' = [loop EXCEPT !.pc = "build", !.local = built]
           /\ inflight' = [inflight EXCEPT
                              !["refresh"] = trading_pairs[Len(built) + 1]]
    /\ UNCHANGED <<clock, config, riskVars, apiVars, agentVars, fusion, pureVars,
                   refreshLog, recommendations, stopFlag, update_interval, reads>>

\* build_recommendation returns or raises; an exception ends the thread.
BuildEnd ==
    /\ loop.pc = "build"
    /\ \E d \in ThreadData :
          LET r == build_recommendation(inflight["refresh"], d.fetch, d.ctx)
              built == Append(loop.local, r)
          IN  loop' = IF r.raised THEN [loop EXCEPT !.pc = "dead", !.local = <<>>]
                      ELSE [loop EXCEPT !.local = built,
                               !.pc = IF Len(built) = Len(trading_pairs)
                                      THEN "sort" ELSE "next"]
    /\ inflight' = [inflight EXCEPT !["refresh"] = "none"]
    /\ UNCHANGED <<clock, config, riskVars, apiVars, agentVars, fusion, pureVars,
                   refreshLog, recommendations, stopFlag, update_interval, reads>>

\* `return sorted(recommendations, ...)`
RefreshReturn ==
    /\ loop.pc = "sort"
    /\ loop' = [loop EXCEPT !.pc = "publish",
                            !.local = SortedByProbabilityDescending(loop.local)]
    /\ UNCHANGED <<clock, config, riskVars, apiVars, agentVars, fusion, pureVars,
                   refreshLog, recommendations, stopFlag, threadVars>>

\* The recommendations property: a copy of the list, made under the lock.
ReadRecommendations ==
    /\ reads' = [any |-> TRUE, value |-> recommendations]
    /\ UNCHANGED <<clock, config, riskVars, apiVars, agentVars, fusion, pureVars,
                   dashVars, update_interval, inflight>>

\* Another thread enters build_recommendation for a symbol.
CallerBegin(symbol) ==
    /\ inflight["caller"] = "none"
    /\ inflight' = [inflight EXCEPT !["caller"] = symbol]
    /\ UNCHANGED <<clock, config, riskVars, apiVars, agentVars, fusion, pureVars,
                   dashVars, update_interval, reads>>

\* Its build_recommendation returns or raises.
CallerEnd ==
    /\ inflight["caller"] # "none"
    /\ \E d \in ThreadData :
          rec' = build_recommendation(inflight["caller"], d.fetch, d.ctx)
    /\ cycle' = NoCycle
    /\ inflight' = [inflight EXCEPT !["caller"] = "none"]
    /\ UNCHANGED <<clock, config, riskVars, apiVars, fusion, pureVars,
                   dashVars, update_interval, reads>>

NextThreads ==
    \/ Tick
    \/ Start
    \/ Stop
    \/ LoopCheck
    \/ BuildBegin
    \/ BuildEnd
    \/ RefreshReturn
    \/ LoopPublish
    \/ LoopWait
    \/ ReadRecommendations
    \/ \E symbol \in Symbols : CallerBegin(symbol)
    \/ CallerEnd

SpecThreads == InitOne /\ [][NextThreads]_vars

\* ------------------------------------------------------------------------
\* Claims about the RiskManager (SpecRisk)
\* ------------------------------------------------------------------------
\* C1: can_trade(now) returns true exactly when now is at least the
\* cooldown after the most recent record_trade (after construction, when
\* there was none): false at the instant of the record_trade and until the
\* cooldown has passed, true from then on; and can_trade changes no state.
C1_CanTradeIffCooldownElapsed ==
    /\ [](call.op = "can_trade" =>
            (call.result <=> call.now - recorded.time >= config.cooldown))
    /\ [][(call'.op = "can_trade" /\ call' # call) =>
              UNCHANGED <<peak_equity, position>>]_vars

\* A can_trade that answered true after a record_trade.
C1_Witness == call.op = "can_trade" /\ recorded.any /\ call.result = TRUE

\* A step that is an update_equity call with an effect on the call log (a
\* call that repeats the previous one changes neither the log nor the peak).
UpdateEquityStep == call'.op = "update_equity" /\ call' # call

\* C5: peak_equity never decreases: update_equity(e) sets it to the larger
\* of the previous peak and e, and no other operation changes it.
C5_PeakEquityNeverDecreases ==
    [][/\ RLe(peak_equity, peak_equity')
       /\ UpdateEquityStep =>
             peak_equity' = IF RLe(call'.a, peak_equity) THEN peak_equity ELSE call'.a
       /\ ~UpdateEquityStep => peak_equity' = peak_equity]_vars

\* An update_equity below a peak that has risen above its initial value.
C5_Witness ==
    call.op = "update_equity" /\ RLt(call.a, peak_equity) /\ RLt(One, peak_equity)

\* ------------------------------------------------------------------------
\* Claims about the decision cycle (SpecAgent)
\* ------------------------------------------------------------------------
\* A step that is a trade call with an effect on the log or the position.
TradeStep == cycle'.symbol # "none" /\ (cycle' # cycle \/ position' # position)

\* C2: a decision cycle invokes send_order at most once, and only after the
\* fetch succeeded, the cooldown had elapsed and position_size returned a
\* non-zero size; when the fetch fails, the cooldown is active or the size
\* is 0, no order is sent and the PositionState is unchanged.
C2_OrderOnlyAfterGates ==
    [][TradeStep =>
        /\ Len(cycle'.orders) <= 1
        /\ Len(cycle'.orders) = 1 =>
              /\ cycle'.fetch = "ok"
              /\ clock - position.last_trade_time >= config.cooldown
              /\ cycle'.size # NoRat
              /\ cycle'.size # Zero
        /\ (\/ cycle'.fetch # "ok"
            \/ clock - position.last_trade_time < config.cooldown
            \/ cycle'.size = Zero) =>
              (cycle'.orders = <<>> /\ position' = position)]_vars

\* A cycle that passed every gate and sent its order.
C2_Witness == cycle.outcome = "traded" /\ Len(cycle.orders) = 1

\* Whether the cycle's execution report carries a fill.
HasFill(c) == c.report.status # "none" /\ RLt(Zero, c.report.executed_quantity)

\* C3: only an execution report with a fill advances the PositionState: a
\* cycle whose order was rejected or whose report has no fill (live mode:
\* NEW, executed_quantity 0) applies no record_trade and leaves the
\* PositionState and the cooldown clock unchanged.
C3_OnlyFillAdvancesPosition ==
    [][TradeStep /\ ~HasFill(cycle') =>
          (cycle'.recorded = <<>> /\ position' = position)]_vars

\* C4: one PositionState per symbol: a trade recorded for symbol a leaves
\* the PositionState that gates any other symbol b unchanged.
C4_PositionStatePerSymbol ==
    [][\A a \in Symbols, b \in Symbols :
          (a # b /\ TradeStep /\ cycle'.symbol = a /\ cycle'.recorded # <<>>) =>
              RiskPositionOf(b)' = RiskPositionOf(b)]_vars

\* C7: after send_order, record_trade gets size = executed quantity times the
\* report's avg_price and price = avg_price, and the stop levels are those
\* of avg_price.
C7_RecordedSizeUsesAvgPrice ==
    cycle.outcome = "traded" =>
        /\ cycle.recorded =
              <<RMul(cycle.report.executed_quantity, cycle.report.avg_price),
                cycle.report.avg_price>>
        /\ cycle.stops =
              <<[take_profit |-> RMul(cycle.report.avg_price, Rat(105, 100)),
                 stop_loss |-> RMul(cycle.report.avg_price, Rat(98, 100))]>>

\* C8 as stated: a composite signal of exactly 0 makes the decision cycle
\* choose SELL and send the order, and makes the recommendation SHORT.
C8_ZeroSignalRoutedShort ==
    /\ (cycle.signal = Zero /\ cycle.outcome # "cooldown") =>
          (cycle.side = "SELL" /\ Len(cycle.orders) = 1)
    /\ rec.signal = Zero => rec.side = "SHORT"

\* C8, amended: with a composite signal of exactly 0 the decision cycle
\* chooses no side and sends no order (it ends at the cooldown gate or at the
\* zero-size gate), and the recommendation side is LONG.
C8_ZeroSignalNoOrderAndLong ==
    /\ cycle.signal = Zero =>
          /\ cycle.outcome \in {"cooldown", "zero_size"}
          /\ cycle.side = "none"
          /\ cycle.orders = <<>>
          /\ cycle.recorded = <<>>
    /\ rec.signal = Zero => rec.side = "LONG"

\* A cycle with signal 0 that passed the cooldown gate and ended at the
\* zero-size gate.
C8_Witness == cycle.signal = Zero /\ cycle.outcome = "zero_size"

\* ------------------------------------------------------------------------
\* Claims about signal fusion (SpecFusion)
\* ------------------------------------------------------------------------
\* 0.5 * technical.signal + 0.3 * fundamental + 0.2 * sentiment of the
\* context that was built.
C9_Weighted ==
    RAdd(RAdd(RMul(Rat(1, 2), fusion.ctx.technical.signal),
              RMul(Rat(3, 10), fusion.ctx.fundamental)),
         RMul(Rat(1, 5), fusion.ctx.sentiment))

\* C9: for every StrategyContext, fundamental scores outside [-1, 1]
\* included, composite_signal is the weighted sum cut to [-1, 1]: the sum
\* itself when it lies in [-1, 1], 1 when it is above, -1 when it is below.
C9_CompositeSignalClamped ==
    fusion.signal # NoRat =>
        /\ RLe(RNeg(One), fusion.signal)
        /\ RLe(fusion.signal, One)
        /\ RLt(One, C9_Weighted) => fusion.signal = One
        /\ RLt(C9_Weighted, RNeg(One)) => fusion.signal = RNeg(One)
        /\ (RLe(RNeg(One), C9_Weighted) /\ RLe(C9_Weighted, One)) =>
              fusion.signal = C9_Weighted

\* A fundamental score above 1, from weights that sum beyond 1, whose
\* weighted sum is above 1 and was cut to 1.
C9_Witness ==
    /\ fusion.signal = One
    /\ RLt(One, fusion.ctx.fundamental)
    /\ RLt(One, C9_Weighted)

\* ------------------------------------------------------------------------
\* Claims about the recommendations (SpecEngine, SpecDash)
\* ------------------------------------------------------------------------
\* The number of indices of sequence q that satisfy Test.
CountWhere(q, Test(_)) == Cardinality({i \in 1..Len(q) : Test(q[i])})

\* C6: a candle-provider failure for one symbol of a batch skips that symbol
\* only: refresh still returns, with a recommendation for every symbol whose
\* fetch succeeded, and the refresh thread stays alive.
C6_FailureSkipsOnlyThatSymbol ==
    (/\ refreshLog.called
     /\ \A i \in 1..Len(refreshLog.data) :
           refreshLog.data[i].fetch.status \in {"ok", "fail"}) =>
        /\ refreshLog.returned
        /\ \A i \in 1..Len(refreshLog.symbols) :
              refreshLog.data[i].fetch.status = "ok" =>
                 \E j \in 1..Len(refreshLog.result) :
                    refreshLog.result[j].symbol = refreshLog.symbols[i]
        /\ loop.pc # "dead"

\* C10: a refresh that returns gives exactly one recommendation per input
\* symbol, in order of non-increasing probability whatever the input order,
\* each with probability |composite signal| cut to [0, 1], and of side SHORT
\* when the composite signal is negative.
C10_RefreshSortedOnePerSymbol ==
    (refreshLog.called /\ refreshLog.returned) =>
        LET res == refreshLog.result
            syms == refreshLog.symbols
            inputs == [i \in 1..Len(syms) |->
                         <<syms[i], composite_signal(refreshLog.data[i].ctx)>>]
            outputs == [j \in 1..Len(res) |-> <<res[j].symbol, res[j].signal>>]
        IN  /\ Len(res) = Len(syms)
            /\ \A i \in 1..Len(syms) :
                  LET Same(x) == x = inputs[i]
                  IN  CountWhere(inputs, Same) = CountWhere(outputs, Same)
            /\ \A i \in 1..Len(res), j \in 1..Len(res) :
                  i < j => RLe(res[j].probability, res[i].probability)
            /\ \A j \in 1..Len(res) :
                  /\ res[j].probability =
                        IF RLt(One, RAbs(res[j].signal)) THEN One
                        ELSE RAbs(res[j].signal)
                  /\ RLt(res[j].signal, Zero) => res[j].side = "SHORT"

\* A refresh of two symbols given in increasing order of probability, one of
\* them with a negative signal.
C10_Witness ==
    /\ refreshLog.called
    /\ refreshLog.returned
    /\ Len(refreshLog.result) = 2
    /\ refreshLog.result # refreshLog.built
    /\ \E j \in 1..2 : refreshLog.result[j].side = "SHORT"

\* ------------------------------------------------------------------------
\* Claims about the threads (SpecThreads, SpecDash)
\* ------------------------------------------------------------------------
\* C11: computations for the same symbol never overlap: no two threads are
\* inside the pipeline for the same symbol at the same time.
C11_SameSymbolNeverOverlaps ==
    \A t1 \in Threads, t2 \in Threads :
        (t1 # t2 /\ inflight[t1] # "none") => inflight[t1] # inflight[t2]

\* ------------------------------------------------------------------------
\* Further claims about the RiskManager (SpecRisk)
\* ------------------------------------------------------------------------
\* C12: for every equity >= 0 and every signal strength, position_size
\* returns min(|signal_strength|, 1) * max_position_size * equity, which lies
\* in [0, equity * max_position_size]; it is max_position_size * equity when
\* |signal_strength| >= 1, and it is 0 exactly when the signal strength or
\* the equity is 0.
C12_PositionSizeClamped ==
    (call.op = "position_size" /\ RLe(Zero, call.a)) =>
        LET equity == call.a
            strength == call.b
            magnitude == IF RLe(One, RAbs(strength)) THEN One ELSE RAbs(strength)
        IN  /\ call.result = RMul(RMul(magnitude, max_position_size), equity)
            /\ RLe(Zero, call.result)
            /\ RLe(call.result, RMul(equity, max_position_size))
            /\ RLe(One, RAbs(strength)) =>
                  call.result = RMul(max_position_size, equity)
            /\ call.result = Zero <=> (strength = Zero \/ equity = Zero)

\* A negative signal strength of magnitude above 1 with a positive equity.
C12_Witness ==
    /\ call.op = "position_size"
    /\ call.a = Rat(3, 2)
    /\ call.b = Rat(-2, 1)
    /\ call.result = RMul(max_position_size, Rat(3, 2))

\* ------------------------------------------------------------------------
\* Claims about the technical indicators (SpecTech)
\* ------------------------------------------------------------------------
\* C13: for a period > 0 and a series of at least period + 1 elements,
\* relative_strength_index returns a list of the input's length whose first
\* `period` entries are undefined and whose later entries lie in [0, 100],
\* being 100 whenever the smoothed average loss is 0, which is when no
\* element up to there is below its predecessor; a series of fewer than
\* period + 1 elements raises an error.
C13_RSIBounds ==
    (tech.op = "relative_strength_index" /\ tech.done /\ tech.period > 0) =>
        LET values == tech.values
            period == tech.period
            r == tech.result
        IN  IF Len(values) >= period + 1
            THEN /\ r.error = "none"
                 /\ Len(r.value) = Len(values)
                 /\ \A i \in 1..period : r.value[i] = NaN
                 /\ \A i \in (period + 1)..Len(values) :
                       /\ r.value[i] # NaN
                       /\ RLe(Zero, r.value[i])
                       /\ RLe(r.value[i], Rat(100, 1))
                       /\ (\A j \in 2..i : RLe(values[j - 1], values[j])) =>
                             r.value[i] = Rat(100, 1)
            ELSE r.error # "none"

\* A series that rises and then falls: an RSI of 100 followed by one
\* strictly between 0 and 100.
C13_Witness ==
    /\ tech.op = "relative_strength_index"
    /\ tech.done
    /\ tech.period = 2
    /\ tech.result.error = "none"
    /\ Len(tech.values) = 4
    /\ tech.result.value[3] = Rat(100, 1)
    /\ RLt(Zero, tech.result.value[4])
    /\ RLt(tech.result.value[4], Rat(100, 1))

\* C14: for three series of equal length and a period > 0,
\* average_true_range returns a sequence of the inputs' length, with the
\* mean of the first `period` true ranges at index period - 1 and undefined
\* entries before it; it fails only when the lengths differ or period <= 0.
C14_ATRLengthAndFailures ==
    (tech.op = "average_true_range" /\ tech.done) =>
        LET n == Len(tech.highs)
            period == tech.period
            r == tech.result
        IN  IF n = Len(tech.lows) /\ n = Len(tech.closes) /\ period > 0
            THEN /\ r.error = "none"
                 /\ Len(r.value) = n
                 /\ \A i \in 1..(period - 1) : r.value[i] = NaN
                 /\ r.value[period] =
                       RDiv(SumSeq(true_ranges(tech.highs, tech.lows, tech.closes),
                                   1, period),
                            Rat(period, 1))
            ELSE r.error # "none"

\* The latest entry of a moving average of the prices of the call.
C15_LatestMA(period) == moving_average(tech.prices, period).value[Len(tech.prices)]

\* The latest RSI of the prices of the call.
C15_LatestRSI ==
    relative_strength_index(tech.prices, tech.cfg.rsi_period).value[Len(tech.prices)]

\* C15: the signal generate_technical_signal returns is the sum of a
\* moving-average term, +0.4 if the latest fast MA is greater than the latest
\* slow MA and -0.4 otherwise, an undefined MA included, and an RSI term,
\* +0.3 if RSI < 30, -0.3 if RSI > 70 and 0 otherwise, an undefined RSI
\* included; so it is one of -0.7, -0.4, -0.1, 0.1, 0.4, 0.7 and never 0.
C15_TechnicalSignalValues ==
    (/\ tech.op = "generate_technical_signal"
     /\ tech.done
     /\ tech.result.error = "none") =>
        LET fast == C15_LatestMA(tech.cfg.fast_ma)
            slow == C15_LatestMA(tech.cfg.slow_ma)
            rsi == C15_LatestRSI
            defined == fast # NaN /\ slow # NaN
            ma_term == IF defined /\ RLt(slow, fast) THEN Rat(4, 10) ELSE Rat(-4, 10)
            rsi_term == IF rsi = NaN THEN Zero
                        ELSE IF RLt(rsi, Rat(30, 1)) THEN Rat(3, 10)
                        ELSE IF RLt(Rat(70, 1), rsi) THEN Rat(-3, 10)
                        ELSE Zero
            signal == tech.result.value.signal
        IN  /\ signal = RAdd(ma_term, rsi_term)
            /\ signal \in {Rat(-7, 10), Rat(-4, 10), Rat(-1, 10), Rat(1, 10),
                           Rat(4, 10), Rat(7, 10)}
            /\ signal # Zero
            /\ RLe(Rat(-7, 10), signal) /\ RLe(signal, Rat(7, 10))

\* A call with too little history for the slow MA: the moving-average term
\* is -0.4, and with an RSI above 70 the signal is -0.7.
C15_Witness ==
    /\ tech.op = "generate_technical_signal"
    /\ tech.done
    /\ tech.result.error = "none"
    /\ C15_LatestMA(tech.cfg.slow_ma) = NaN
    /\ C15_LatestMA(tech.cfg.fast_ma) # NaN
    /\ tech.result.value.signal = Rat(-7, 10)

\* A call whose fast MA is above its slow MA and whose RSI is below 30.
C15_WitnessMixed ==
    /\ tech.op = "generate_technical_signal"
    /\ tech.done
    /\ tech.result.error = "none"
    /\ tech.result.value.signal = Rat(7, 10)

\* ------------------------------------------------------------------------
\* Claims about the ExecutionEngine (SpecExec)
\* ------------------------------------------------------------------------
\* C16: a send_order call returns one ExecutionReport, of status NEW,
\* FILLED or PARTIALLY_FILLED. Simulated: the executed quantity lies between
\* 0.9 * quantity and quantity, avg_price between price * (1 - max_slippage)
\* and price * (1 + max_slippage), and the status is FILLED exactly when the
\* executed quantity equals the requested one, PARTIALLY_FILLED otherwise.
\* Live: status NEW, executed quantity 0, avg_price the requested price.
C16_SendOrderReport ==
    exec.reports # <<>> =>
        /\ Len(exec.reports) = 1
        /\ LET r == exec.reports[1]
               q == exec.quantity
               p == exec.price
           IN  /\ r.status \in {"NEW", "FILLED", "PARTIALLY_FILLED"}
               /\ r.order.quantity = q /\ r.order.price = p
               /\ IF exec.dry_run
                  THEN /\ RLe(RMul(Rat(9, 10), q), r.executed_quantity)
                       /\ RLe(r.executed_quantity, q)
                       /\ RLe(RMul(p, RSub(One, max_slippage)), r.avg_price)
                       /\ RLe(r.avg_price, RMul(p, RAdd(One, max_slippage)))
                       /\ r.status = "FILLED" <=> r.executed_quantity = q
                       /\ r.status # "FILLED" => r.status = "PARTIALLY_FILLED"
                  ELSE /\ r.status = "NEW"
                       /\ r.executed_quantity = Zero
                       /\ r.avg_price = p

\* A simulated order filled in part, below the requested price.
C16_Witness ==
    /\ exec.reports # <<>>
    /\ exec.dry_run
    /\ exec.reports[1].status = "PARTIALLY_FILLED"
    /\ RLt(exec.reports[1].executed_quantity, exec.quantity)
    /\ RLt(exec.reports[1].avg_price, exec.price)

\* ------------------------------------------------------------------------
\* Further claims about the RiskManager (SpecRisk)
\* ------------------------------------------------------------------------
\* C17: a drawdown breach never blocks trading: an update_equity call, one
\* that logs the drawdown warning included, leaves PositionState as it was,
\* so can_trade(now) answers the same before and after it for every now, and
\* the call does not raise.
C17_DrawdownNeverBlocks ==
    [][UpdateEquityStep =>
          /\ position' = position
          /\ \A now \in Times :
                can_trade(position', config.cooldown, now) =
                   can_trade(position, config.cooldown, now)
          /\ ~call'.raised]_vars

\* An update_equity call that logged the drawdown warning while the cooldown
\* had elapsed: trading is still allowed.
C17_Witness ==
    /\ call.op = "update_equity"
    /\ call.result = TRUE
    /\ can_trade(position, config.cooldown, clock)

\* ------------------------------------------------------------------------
\* Claims about the refresh loop (SpecDashLive)
\* ------------------------------------------------------------------------
\* The refresh thread is running.
LoopRunning == loop.pc \in {"check", "refresh", "publish", "wait"}

\* C18: once the stop flag is set the loop starts no new refresh: it ends
\* the iteration in progress, which may still publish, and terminates (or
\* dies of an exception of refresh); a stop during the wait ends the loop
\* with no need for time to pass.
C18_StopEndsLoop ==
    /\ [][stopFlag => ~(loop.pc # "refresh" /\ loop'.pc = "refresh")]_vars
    /\ (stopFlag /\ LoopRunning) ~> (loop.pc \in {"done", "dead"})

\* The loop published, was stopped during its wait and ended before any
\* time had passed.
C18_Witness ==
    /\ stopFlag
    /\ loop.pc = "done"
    /\ recommendations # <<>>
    /\ clock = 0

\* ------------------------------------------------------------------------
\* Further claims about the decision cycle (SpecAgent)
\* ------------------------------------------------------------------------
\* The agent and its RiskManager are constructed at time 0.
ConstructionTime == 0

\* C19: a RiskManager on which no trade was recorded has last_trade_time
\* equal to its construction time, so can_trade is false at every time
\* before construction time + cooldown, and a decision cycle of a fresh
\* agent run before then sends no order and records no trade.
C19_FreshAgentInCooldown ==
    /\ [](~recorded.any =>
            /\ position.last_trade_time = ConstructionTime
            /\ \A now \in Times :
                  now < ConstructionTime + config.cooldown =>
                     ~can_trade(position, config.cooldown, now))
    /\ [][(/\ TradeStep
            /\ ~recorded.any
            /\ clock < ConstructionTime + config.cooldown) =>
              /\ cycle'.orders = <<>>
              /\ cycle'.outcome \in {"fetch_failed", "context_error", "cooldown"}
              /\ ~recorded'.any
              /\ position' = position]_vars

\* A cycle of a fresh agent, with candles and a signal of -0.55, skipped for
\* the cooldown counted from construction.
C19_Witness ==
    /\ ~recorded.any
    /\ cycle.outcome = "cooldown"
    /\ cycle.signal = Rat(-55, 100)
    /\ clock < ConstructionTime + config.cooldown

\* ------------------------------------------------------------------------
\* Claims about the readers of the dashboard (SpecThreads)
\* ------------------------------------------------------------------------
\* A complete result of refresh: one entry per configured symbol, in order
\* of non-increasing probability.
CompleteResult(list) ==
    /\ Len(list) = Len(trading_pairs)
    /\ \A k \in 1..Len(trading_pairs) :
          Cardinality({j \in 1..Len(list) : list[j].symbol = trading_pairs[k]}) = 1
    /\ \A i \in 1..Len(list), j \in 1..Len(list) :
          i < j => RLe(list[j].probability, list[i].probability)

\* C20: whatever the interleaving of readers and the refresh thread, a read
\* of the recommendations property returns the empty initial list or the
\* complete result of one finished refresh, the list published at the
\* moment of the read, never the list a refresh is still building; and what
\* a read returned is not changed by later steps of the refresh thread.
C20_ReadsAreWholeRefreshes ==
    /\ [](reads.value = <<>> \/ CompleteResult(reads.value))
    /\ [](loop.pc = "publish" => CompleteResult(loop.local))
    /\ [][reads' # reads => reads'.value = recommendations]_vars
    /\ [][recommendations' # recommendations =>
             (loop.pc = "publish" /\ recommendations' = loop.local)]_vars
    /\ [][(loop' # loop \/ recommendations' # recommendations) =>
             reads' = reads]_vars

\* A reader holds the result of one refresh while a later refresh, whose
\* result differs, has been published and the next one is being built.
C20_Witness ==
    /\ reads.any
    /\ reads.value # <<>>
    /\ recommendations # <<>>
    /\ recommendations # reads.value
    /\ loop.pc = "build"
    /\ Len(loop.local) = 1

====
